---- MODULE Spec2Model ----
(***************************************************************************)
(* flask-fastspring: the FastSpring extension object (init_app, secure,    *)
(* request), and the OrderMixin / SubscriptionMixin records that mirror    *)
(* the provider's remote state (synchronize, subscription_item).           *)
(*                                                                         *)
(* Encoding of Python values: None is the empty tuple, any other value v   *)
(* is the one-tuple <<v>>.  A JSON object (a dict) is a record whose       *)
(* DOMAIN is the set of keys it carries, so a missing key is really        *)
(* missing and data['k'] on it raises KeyError.                            *)
(***************************************************************************)
EXTENDS Integers, Sequences, FiniteSets, TLC

VARIABLES
    kind,        \* which mixin the record under synchronization uses
    rec,         \* the local record (the mapped columns of the mixin)
    pre,         \* the record as it was when the last synchronize call began
    fetched,     \* the JSON the last synchronize call fetched: <<data>>, or <<>>
    result,      \* how the last synchronize call ended
    maxFetched,  \* largest remote changed instant fetched so far (in
                 \* microseconds), None if none
    wellFormed,  \* every snapshot fetched so far carried all mandatory keys
    serialized,  \* the caller holds a lock on the record across each call
    pc,          \* per concurrent call: where in synchronize it stands
    loc,         \* per concurrent call: its locals data, changed, and the
                 \* number of the next assignment statement
    lowered,     \* some step has moved the watermark to an earlier instant
    apiCall,     \* the last HTTP request made: method, url, params
    apiResponse, \* the response it received
    apiOutcome,  \* what request() did with it: the data returned, or the raise
    item,        \* what the last subscription_item call returned
    itemCalled,  \* subscription_item has been called
    ext,         \* the FastSpring extension object's attributes
    initCall,    \* the last init_app call: the app, how it ended, and the
                 \* private_key the object held before it
    secureCall   \* the last secure / secure_key call since: arguments, outcome

syncVars == <<pre, fetched, result, maxFetched, wellFormed>>
raceVars == <<serialized, pc, loc, lowered>>
apiVars == <<apiCall, apiResponse, apiOutcome>>
itemVars == <<item, itemCalled>>
extVars == <<ext, initCall, secureCall>>

vars == <<kind, rec, syncVars, raceVars, apiVars, itemVars, extVars>>

-----------------------------------------------------------------------------
(* Bounds *)

MaxTime == 2     \* remote changed stamps range over 0..MaxTime milliseconds
MaxVer == 2      \* distinct contents a remote snapshot can carry
MaxItems == 3    \* longest items list of an order

-----------------------------------------------------------------------------
(* Python values *)

None == <<>>
Some(v) == <<v>>
Val(o) == o[1]

Drop(d, k) == [f \in DOMAIN d \ {k} |-> d[f]]

\* dict.get(key): the value, None when the key is missing
Get(d, k) == IF k \in DOMAIN d THEN d[k] ELSE None

Max(a, b) == IF a >= b THEN a ELSE b

-----------------------------------------------------------------------------
(* milliseconds_to_datetime: epoch milliseconds to a UTC instant, kept in  *)
(* microseconds (the resolution of datetime); None stays None, and 0 is    *)
(* the epoch, not None.                                                    *)

milliseconds_to_datetime_Seconds(m) ==
    IF m = None THEN None ELSE Some((Val(m) \div 1000) * 1000000)

milliseconds_to_datetime(m) ==
    IF m = None THEN None ELSE Some(Val(m) * 1000)

-----------------------------------------------------------------------------
(* FastSpring.request: the classification of a response.                   *)
(* A response is [status_code, json]; json is <<>> when the body does not  *)
(* parse as JSON (response.json() raises ValueError), else <<object>>.     *)

\* An exception of class e; APIError(response) keeps the response
Raise(e, response) == [raised |-> e, data |-> None, response |-> response]
Return(d) == [raised |-> "", data |-> Some(d), response |-> None]

requestAny2xx(response) ==
    IF response.status_code \div 100 # 2
    THEN Raise("APIError", Some(response))
    ELSE IF response.json = None
         THEN Raise("ValueError", None)
         ELSE LET data == Val(response.json) IN
              IF "result" \in DOMAIN data /\ data.result # Some("success")
              THEN Raise("APIError", Some(response))
              ELSE Return(data)

request(response) ==
    IF response.status_code # 200
    THEN Raise("APIError", Some(response))
    ELSE IF response.json = None
         THEN Raise("ValueError", None)
         ELSE LET data == Val(response.json) IN
              IF "result" \in DOMAIN data /\ data.result # Some("success")
              THEN Raise("APIError", Some(response))
              ELSE Return(data)

-----------------------------------------------------------------------------
(* The timestamp gate shared by both synchronize methods:                  *)
(*     if self.changed is not None and self.changed >= changed             *)

StaleStrict(selfChanged, changed) ==
    selfChanged # None /\ Val(selfChanged) > Val(changed)

StaleNever(selfChanged, changed) == FALSE

StaleInverted(selfChanged, changed) ==
    selfChanged # None /\ Val(selfChanged) <= Val(changed)

Stale(selfChanged, changed) ==
    selfChanged # None /\ Val(selfChanged) >= Val(changed)

\* datetime >= None raises TypeError; reached only when self.changed is set
GateRaises(selfChanged, changed) ==
    selfChanged # None /\ changed = None

-----------------------------------------------------------------------------
(* OrderMixin *)

OrderFields == <<"reference", "invoice", "changed", "is_complete", "data">>

FreshOrder ==
    [reference |-> None, invoice |-> None, changed |-> None,
     is_complete |-> None, data |-> None]

\* The JSON key statement k of the assignment block reads with data[...]
OrderKey(k) ==
    CASE k = 1 -> "reference"
      [] k = 2 -> "invoiceUrl"
      [] k = 4 -> "completed"
      [] OTHER -> ""

\* Statement k of the assignment block, lines 174-178
OrderAssign(k, self, data, changed) ==
    CASE k = 1 -> [self EXCEPT !.reference = data.reference]
      [] k = 2 -> [self EXCEPT !.invoice = data.invoiceUrl]
      [] k = 3 -> [self EXCEPT !.changed = changed]
      [] k = 4 -> [self EXCEPT !.is_complete = data.completed]
      [] k = 5 -> [self EXCEPT !.data = Some(data)]

RECURSIVE OrderAssignFrom(_, _, _, _)
OrderAssignFrom(k, self, data, changed) ==
    IF k > Len(OrderFields)
    THEN [self |-> self, result |-> "True"]
    ELSE IF OrderKey(k) # "" /\ OrderKey(k) \notin DOMAIN data
         THEN [self |-> self, result |-> "KeyError"]
         ELSE OrderAssignFrom(k + 1, OrderAssign(k, self, data, changed),
                              data, changed)

\* OrderMixin.synchronize after the fetch returned data
OrderMerge(self, data) ==
    IF "changed" \notin DOMAIN data
    THEN [self |-> self, result |-> "KeyError"]
    ELSE LET changed == milliseconds_to_datetime(data.changed) IN
         IF GateRaises(self.changed, changed)
         THEN [self |-> self, result |-> "TypeError"]
         ELSE IF Stale(self.changed, changed)
              THEN [self |-> self, result |-> "False"]
              ELSE OrderAssignFrom(1, self, data, changed)

\* OrderMixin.synchronize, the whole call, given the response to the fetch
OrderSynchronizeCall(self, response) ==
    LET got == request(response) IN
    IF got.raised # ""
    THEN [self |-> self, result |-> got.raised]
    ELSE OrderMerge(self, Val(got.data))

\* Remote order objects the provider can serve: content v at stamp t; the
\* even contents are completed orders, the odd ones are not.
OrderObject(t, v) ==
    [changed |-> t,
     reference |-> Some(<<"ref", v>>),
     invoiceUrl |-> Some(<<"url", v>>),
     completed |-> Some(v % 2 = 0)]

Stamps == {Some(t) : t \in 0..MaxTime}

OrderWellFormed ==
    {OrderObject(t, v) : t \in Stamps, v \in 1..MaxVer}

OrderMandatory == {"changed", "reference", "invoiceUrl", "completed"}

OrderSnapshots ==
    OrderWellFormed
    \cup {Drop(s, k) : s \in OrderWellFormed, k \in OrderMandatory}
    \cup {[s EXCEPT !.changed = None] : s \in OrderWellFormed}

-----------------------------------------------------------------------------
(* SubscriptionMixin *)

SubscriptionFields ==
    <<"begin", "changed", "next_event", "next_charge", "end",
      "is_active", "state", "data">>

FreshSubscription ==
    [begin |-> None, changed |-> None, next_event |-> None,
     next_charge |-> None, end |-> None, is_active |-> None,
     state |-> None, data |-> None]

\* The JSON key statement k reads with data[...]; data.get(...) needs none
SubscriptionKey(k) ==
    CASE k = 1 -> "begin"
      [] k = 6 -> "active"
      [] k = 7 -> "state"
      [] OTHER -> ""

\* Statement k of the assignment block, lines 211-218
SubscriptionAssign(k, self, data, changed) ==
    CASE k = 1 -> [self EXCEPT !.begin = milliseconds_to_datetime(data.begin)]
      [] k = 2 -> [self EXCEPT !.changed = changed]
      [] k = 3 -> [self EXCEPT
                     !.next_event = milliseconds_to_datetime(Get(data, "next"))]
      [] k = 4 -> [self EXCEPT
                     !.next_charge =
                         milliseconds_to_datetime(Get(data, "nextChargeDate"))]
      [] k = 5 -> [self EXCEPT !.end = milliseconds_to_datetime(Get(data, "end"))]
      [] k = 6 -> [self EXCEPT !.is_active = data.active]
      [] k = 7 -> [self EXCEPT !.state = data.state]
      [] k = 8 -> [self EXCEPT !.data = Some(data)]

RECURSIVE SubscriptionAssignFrom(_, _, _, _)
SubscriptionAssignFrom(k, self, data, changed) ==
    IF k > Len(SubscriptionFields)
    THEN [self |-> self, result |-> "True"]
    ELSE IF SubscriptionKey(k) # "" /\ SubscriptionKey(k) \notin DOMAIN data
         THEN [self |-> self, result |-> "KeyError"]
         ELSE SubscriptionAssignFrom(k + 1,
                                     SubscriptionAssign(k, self, data, changed),
                                     data, changed)

\* SubscriptionMixin.synchronize after the fetch returned data
SubscriptionMerge(self, data) ==
    IF "changed" \notin DOMAIN data
    THEN [self |-> self, result |-> "KeyError"]
    ELSE LET changed == milliseconds_to_datetime(data.changed) IN
         IF GateRaises(self.changed, changed)
         THEN [self |-> self, result |-> "TypeError"]
         ELSE IF Stale(self.changed, changed)
              THEN [self |-> self, result |-> "False"]
              ELSE SubscriptionAssignFrom(1, self, data, changed)

\* SubscriptionMixin.synchronize, the whole call, given the fetch's response
SubscriptionSynchronizeCall(self, response) ==
    LET got == request(response) IN
    IF got.raised # ""
    THEN [self |-> self, result |-> got.raised]
    ELSE SubscriptionMerge(self, Val(got.data))

\* Remote subscription objects: content v at stamp t.  The odd contents are
\* running subscriptions, with their next event and next charge scheduled
\* and no end; the even ones are stopped, with an end, a null next event
\* and no nextChargeDate key at all.
SubscriptionObject(t, v) ==
    IF v % 2 = 1
    THEN [changed |-> t, begin |-> Some(v), active |-> Some(TRUE),
          state |-> Some("active"),
          next |-> Some(v + 1), nextChargeDate |-> Some(v + 1)]
    ELSE [changed |-> t, begin |-> Some(v), active |-> Some(FALSE),
          state |-> Some("canceled"),
          next |-> None, end |-> Some(v + 2)]

SubscriptionWellFormed ==
    {SubscriptionObject(t, v) : t \in Stamps, v \in 1..MaxVer}

SubscriptionMandatory == {"changed", "begin", "active", "state"}

SubscriptionSnapshots ==
    SubscriptionWellFormed
    \cup {Drop(s, k) : s \in SubscriptionWellFormed, k \in SubscriptionMandatory}
    \cup {[s EXCEPT !.changed = None] : s \in SubscriptionWellFormed}

-----------------------------------------------------------------------------
(* The parts of the state a specification does not exercise stay as here   *)

NoSync ==
    /\ pre = rec
    /\ fetched = None
    /\ result = "none"
    /\ maxFetched = None
    /\ wellFormed = TRUE

NoRace ==
    /\ serialized = TRUE
    /\ pc = <<>>
    /\ loc = <<>>
    /\ lowered = FALSE

NoApi ==
    /\ apiCall = None
    /\ apiResponse = None
    /\ apiOutcome = None

NoItem ==
    /\ item = None
    /\ itemCalled = FALSE

NoExt ==
    /\ ext = None
    /\ initCall = None
    /\ secureCall = None

-----------------------------------------------------------------------------
(* Responses the fetch of a synchronize call can receive *)

FailedResponses ==
    {[status_code |-> 404, json |-> Some([error |-> Some("not found")])],
     [status_code |-> 500, json |-> None],
     [status_code |-> 200, json |-> None],
     [status_code |-> 200, json |-> Some([result |-> Some("error")])]}

OkResponse(data) == [status_code |-> 200, json |-> Some(data)]

Snapshots == IF kind = "order" THEN OrderSnapshots ELSE SubscriptionSnapshots
WellFormedSnapshots ==
    IF kind = "order" THEN OrderWellFormed ELSE SubscriptionWellFormed

\* What a call that fetched `got` adds to the history.  The largest stamp
\* is kept only while every snapshot fetched so far was well formed.
Note(got) ==
    LET wf == wellFormed /\ (got.data = None
                              \/ Val(got.data) \in WellFormedSnapshots) IN
    /\ fetched' = got.data
    /\ wellFormed' = wf
    /\ maxFetched' =
         IF ~wf THEN None
         ELSE IF got.data = None THEN maxFetched
         ELSE LET t == 1000 * Val(Val(got.data).changed) IN
              IF maxFetched = None THEN Some(t)
              ELSE Some(Max(Val(maxFetched), t))

-----------------------------------------------------------------------------
(* Serialized synchronization: each call runs from fetch to return before  *)
(* the next one starts.                                                    *)

InitSync ==
    /\ kind \in {"order", "subscription"}
    /\ rec = IF kind = "order" THEN FreshOrder ELSE FreshSubscription
    /\ NoSync /\ NoRace /\ NoApi /\ NoItem /\ NoExt

OrderSynchronize ==
    /\ kind = "order"
    /\ \E response \in {OkResponse(s) : s \in OrderSnapshots} \cup FailedResponses :
         LET out == OrderSynchronizeCall(rec, response) IN
         /\ rec' = out.self
         /\ result' = out.result
         /\ pre' = rec
         /\ Note(request(response))
    /\ UNCHANGED <<kind, raceVars, apiVars, itemVars, extVars>>

SubscriptionSynchronize ==
    /\ kind = "subscription"
    /\ \E response \in {OkResponse(s) : s \in SubscriptionSnapshots}
                          \cup FailedResponses :
         LET out == SubscriptionSynchronizeCall(rec, response) IN
         /\ rec' = out.self
         /\ result' = out.result
         /\ pre' = rec
         /\ Note(request(response))
    /\ UNCHANGED <<kind, raceVars, apiVars, itemVars, extVars>>

NextSync == OrderSynchronize \/ SubscriptionSynchronize

SpecSync == InitSync /\ [][NextSync]_vars

-----------------------------------------------------------------------------
(* What the claims about synchronize speak of *)

\* The datetime dt is the instant of the JSON stamp ms (None for null/absent)
SameInstant(dt, ms) ==
    IF ms = None THEN dt = None
    ELSE dt # None /\ Val(dt) = 1000 * Val(ms)

\* Every mapped field of the order record r equals the remote snapshot d
MirrorsOrder(r, d) ==
    /\ OrderMandatory \subseteq DOMAIN d
    /\ r.reference = d.reference
    /\ r.invoice = d.invoiceUrl
    /\ SameInstant(r.changed, d.changed)
    /\ r.is_complete = d.completed
    /\ r.data = Some(d)

\* Every mapped field of the subscription record r equals the snapshot d
MirrorsSubscription(r, d) ==
    /\ SubscriptionMandatory \subseteq DOMAIN d
    /\ SameInstant(r.begin, d.begin)
    /\ SameInstant(r.changed, d.changed)
    /\ SameInstant(r.next_event, Get(d, "next"))
    /\ SameInstant(r.next_charge, Get(d, "nextChargeDate"))
    /\ SameInstant(r.end, Get(d, "end"))
    /\ r.is_active = d.active
    /\ r.state = d.state
    /\ r.data = Some(d)

Mirrors(r, d) ==
    IF kind = "order" THEN MirrorsOrder(r, d) ELSE MirrorsSubscription(r, d)

\* The last call fetched a snapshot that carries every mandatory key
FetchedWellFormed == fetched # None /\ Val(fetched) \in WellFormedSnapshots

\* T1 <= T0: the stamp of snapshot d is not after the set watermark of r
NotAfter(d, r) == r.changed # None /\ 1000 * Val(d.changed) <= Val(r.changed)

\* C1: synchronize with local changed = T0 and fetched remote changed = T1:
\* if T0 is set and T1 <= T0 (equality included) the call returns False and
\* no field of the record is mutated; if T0 is unset or T1 > T0 it returns
\* True and every mapped field equals the remote snapshot, changed == T1.
\* Stated of every call whose fetch returned a snapshot carrying the mapped
\* values (all mandatory keys, a non-null changed).
C1_MonotonicMerge ==
    FetchedWellFormed =>
        IF NotAfter(Val(fetched), pre)
        THEN result = "False" /\ rec = pre
        ELSE result = "True" /\ Mirrors(rec, Val(fetched))

\* C1 witness: a snapshot with T1 = T0 but other content was fetched and
\* the record was left alone.
C1_Witness ==
    /\ FetchedWellFormed
    /\ pre.changed # None
    /\ 1000 * Val(Val(fetched).changed) = Val(pre.changed)
    /\ pre.data # fetched
    /\ result = "False"
    /\ rec = pre

\* The snapshot d is newer than the record r (r fresh, or T1 > T0)
Newer(d, r) == r.changed = None \/ 1000 * Val(d.changed) > Val(r.changed)

\* C2: synchronization is idempotent: for any record and any remote snapshot
\* newer than it, two consecutive synchronize calls that both fetch that
\* snapshot return True then False, and the second leaves the record as the
\* first left it.
C2_Idempotent ==
    [][ (/\ FetchedWellFormed
         /\ Newer(Val(fetched), pre)
         /\ fetched' = fetched)
        => (/\ result = "True"
            /\ result' = "False"
            /\ rec' = rec) ]_vars

\* C2 witness: the second of two calls on the same snapshot has returned
\* False on a record that holds exactly that snapshot.
C2_Witness ==
    /\ FetchedWellFormed
    /\ result = "False"
    /\ rec = pre
    /\ rec.data = fetched
    /\ Mirrors(rec, Val(fetched))

\* C3: over any sequence of serialized synchronize calls, with snapshots
\* arriving in any order of stamps, the changed watermark never decreases
\* from one state to the next, and it equals the largest remote changed
\* value fetched so far (snapshots carrying their mandatory keys).
C3_Watermark ==
    [][ /\ (rec.changed # None =>
              /\ rec'.changed # None
              /\ Val(rec'.changed) >= Val(rec.changed))
        /\ (wellFormed' => rec'.changed = maxFetched') ]_vars

\* C3 witness: an older snapshot arrived after a newer one and the watermark
\* stayed at the largest stamp fetched.
C3_Witness ==
    /\ wellFormed
    /\ FetchedWellFormed
    /\ 1000 * Val(Val(fetched).changed) < Val(rec.changed)
    /\ rec.changed = maxFetched
    /\ result = "False"

\* The snapshot d passes the gate of record r: the watermark is unset, or
\* the remote stamp is strictly after it
PassesGate(d, r) ==
    \/ r.changed = None
    \/ /\ "changed" \in DOMAIN d
       /\ d.changed # None
       /\ 1000 * Val(d.changed) > Val(r.changed)

\* C4, as claimed: once is_complete is true on the local order record it is
\* never false in a later state (read here over snapshots that carry every
\* mandatory key, which is enough to refute it).
C4_CompleteLatches ==
    [][ (kind = "order" /\ wellFormed' /\ rec.is_complete = Some(TRUE))
        => rec'.is_complete = Some(TRUE) ]_vars

\* C4, amended: is_complete mirrors the remote flag; once true it becomes
\* false only in a synchronize call that returns True on a snapshot that
\* passed the gate (watermark unset, or remote strictly newer) and whose
\* completed flag is false.  Stale and duplicate snapshots never revert it.
C4_CompleteMirrors ==
    [][ (/\ kind = "order"
         /\ rec.is_complete = Some(TRUE)
         /\ rec'.is_complete # Some(TRUE))
        => (/\ result' = "True"
            /\ fetched' # None
            /\ "completed" \in DOMAIN Val(fetched')
            /\ Val(fetched').completed = Some(FALSE)
            /\ rec'.is_complete = Some(FALSE)
            /\ PassesGate(Val(fetched'), rec)) ]_vars

\* C4 witness: a newer snapshot with completed = false has reverted a
\* complete order.
C4_Witness ==
    /\ kind = "order"
    /\ pre.is_complete = Some(TRUE)
    /\ rec.is_complete = Some(FALSE)
    /\ result = "True"

\* C10: every synchronize call is all-or-nothing on every exit path: after
\* it the record either has all mapped fields equal to the remote snapshot
\* or is unchanged from before the call.
C10_AllOrNothing ==
    result # "none" =>
        \/ rec = pre
        \/ fetched # None /\ Mirrors(rec, Val(fetched))

-----------------------------------------------------------------------------
(* Two synchronize calls on one record, statement by statement.  Neither   *)
(* method takes a lock: without the caller's serialization the fetch, the  *)
(* comparison and each assignment of one call interleave with the other's. *)

Calls == {"a", "b"}

Idle == [data |-> None, changed |-> None, k |-> 0]

Fields == IF kind = "order" THEN OrderFields ELSE SubscriptionFields
Key(k) == IF kind = "order" THEN OrderKey(k) ELSE SubscriptionKey(k)
Assign(k, self, data, changed) ==
    IF kind = "order" THEN OrderAssign(k, self, data, changed)
    ELSE SubscriptionAssign(k, self, data, changed)

\* A record as a completed synchronize of snapshot d leaves it
Synced(d) ==
    IF kind = "order"
    THEN OrderAssignFrom(1, FreshOrder, d,
                         milliseconds_to_datetime(d.changed)).self
    ELSE SubscriptionAssignFrom(1, FreshSubscription, d,
                                milliseconds_to_datetime(d.changed)).self

InitRace ==
    /\ kind \in {"order", "subscription"}
    /\ rec \in {IF kind = "order" THEN FreshOrder ELSE FreshSubscription}
                 \cup {Synced(d) : d \in WellFormedSnapshots}
    /\ NoSync /\ NoApi /\ NoItem /\ NoExt
    /\ serialized \in BOOLEAN
    /\ pc = [c \in Calls |-> "start"]
    /\ loc = [c \in Calls |-> Idle]
    /\ lowered = FALSE

Earlier(after, before) ==
    before # None /\ (after = None \/ Val(after) < Val(before))

\* Lines 170-171 and 207-208: the fetch, and the conversion of the stamp.
\* Under the caller's lock a call starts only when no other is under way.
RaceFetch(c) ==
    /\ pc[c] = "start"
    /\ serialized => \A o \in Calls \ {c} : pc[o] \in {"start", "done"}
    /\ \E response \in {OkResponse(d) : d \in WellFormedSnapshots}
                          \cup FailedResponses :
         LET got == request(response) IN
         IF got.raised # ""
         THEN /\ pc' = [pc EXCEPT ![c] = "done"]
              /\ UNCHANGED loc
         ELSE /\ pc' = [pc EXCEPT ![c] = "gate"]
              /\ loc' = [loc EXCEPT ![c] =
                           [data |-> got.data,
                            changed |->
                                milliseconds_to_datetime(Val(got.data).changed),
                            k |-> 0]]
    /\ UNCHANGED <<kind, rec, syncVars, serialized, lowered,
                   apiVars, itemVars, extVars>>

\* Lines 172-173 and 209-210: the comparison with the record's watermark
RaceGate(c) ==
    /\ pc[c] = "gate"
    /\ IF GateRaises(rec.changed, loc[c].changed)
          \/ Stale(rec.changed, loc[c].changed)
       THEN /\ pc' = [pc EXCEPT ![c] = "done"]
            /\ loc' = [loc EXCEPT ![c] = Idle]
       ELSE /\ pc' = [pc EXCEPT ![c] = "assign"]
            /\ loc' = [loc EXCEPT ![c].k = 1]
    /\ UNCHANGED <<kind, rec, syncVars, serialized, lowered,
                   apiVars, itemVars, extVars>>

\* One statement of lines 174-178 and 211-218
RaceAssign(c) ==
    /\ pc[c] = "assign"
    /\ LET k == loc[c].k
           data == Val(loc[c].data) IN
       IF Key(k) # "" /\ Key(k) \notin DOMAIN data
       THEN /\ pc' = [pc EXCEPT ![c] = "done"]
            /\ loc' = [loc EXCEPT ![c] = Idle]
            /\ UNCHANGED <<rec, lowered>>
       ELSE /\ rec' = Assign(k, rec, data, loc[c].changed)
            /\ lowered' = (lowered \/ Earlier(rec'.changed, rec.changed))
            /\ IF k = Len(Fields)
               THEN /\ pc' = [pc EXCEPT ![c] = "done"]
                    /\ loc' = [loc EXCEPT ![c] = Idle]
               ELSE /\ pc' = pc
                    /\ loc' = [loc EXCEPT ![c].k = k + 1]
    /\ UNCHANGED <<kind, syncVars, serialized, apiVars, itemVars, extVars>>

NextRace == \E c \in Calls : RaceFetch(c) \/ RaceGate(c) \/ RaceAssign(c)

SpecRace == InitRace /\ [][NextRace]_vars

\* No call is under way
Quiescent == \A c \in Calls : pc[c] \in {"start", "done"}

\* The mapped fields of the record all come from one snapshot
OneSnapshot(r) ==
    \/ r \in {FreshOrder, FreshSubscription}
    \/ r.data # None /\ Mirrors(r, Val(r.data))

\* C9: with each call's fetch-compare-write atomic (the caller's lock), no
\* step moves the watermark back and no call leaves the record with fields
\* from two snapshots; without the lock both happen (C9_Race).
C9_Serialized ==
    [][ serialized =>
          /\ ~Earlier(rec'.changed, rec.changed)
          /\ ~lowered'
          /\ (Quiescent' => OneSnapshot(rec')) ]_vars

\* C9 witness: two unserialized calls have finished, one of them moved the
\* watermark back over the other's newer stamp, and the record is left
\* with fields from two different snapshots.
C9_Race ==
    /\ ~serialized
    /\ Quiescent
    /\ lowered
    /\ ~OneSnapshot(rec)

-----------------------------------------------------------------------------
(* The REST calls: fetch_order, fetch_subscription, cancel_subscription,    *)
(* each through fetch / request.                                            *)

Ids == {"id-1", "id-2"}

StatusCodes == {200, 201, 204, 302, 400, 404, 500}

\* Bodies: not JSON at all, or a JSON object with or without a result field
Bodies ==
    {None,
     Some([id |-> Some("id-1")]),
     Some([id |-> Some("id-1"), result |-> Some("success")]),
     Some([id |-> Some("id-1"), result |-> Some("error")]),
     Some([result |-> None])}

Responses == [status_code : StatusCodes, json : Bodies]

\* requests.request(method, 'https://api.fastspring.com' + uri, auth, params)
HttpRequest(method, uri, params) ==
    [method |-> method,
     url |-> <<"https://api.fastspring.com">> \o uri,
     params |-> params]

\* cancel_subscription's params: billingPeriod=0 only when immediately
CancelParams(immediately) ==
    IF immediately THEN [billingPeriod |-> "0"] ELSE <<>>

InitApi ==
    /\ kind = "order"
    /\ rec = FreshOrder
    /\ NoSync /\ NoRace /\ NoApi /\ NoItem /\ NoExt

\* fetch(uri): request('GET', uri)
fetch(uri) == [method |-> "GET", uri |-> uri, params |-> None]

fetch_order ==
    \E order_id \in Ids, response \in Responses :
        LET call == fetch(<<"/orders/", order_id>>) IN
        /\ apiCall' = Some(HttpRequest(call.method, call.uri, call.params))
        /\ apiResponse' = Some(response)
        /\ apiOutcome' = Some(request(response))
        /\ UNCHANGED <<kind, rec, syncVars, raceVars, itemVars, extVars>>

fetch_subscription ==
    \E subscription_id \in Ids, response \in Responses :
        LET call == fetch(<<"/subscriptions/", subscription_id>>) IN
        /\ apiCall' = Some(HttpRequest(call.method, call.uri, call.params))
        /\ apiResponse' = Some(response)
        /\ apiOutcome' = Some(request(response))
        /\ UNCHANGED <<kind, rec, syncVars, raceVars, itemVars, extVars>>

cancel_subscription ==
    \E subscription_id \in Ids, immediately \in BOOLEAN, response \in Responses :
        /\ apiCall' = Some(HttpRequest("DELETE",
                                       <<"/subscriptions/", subscription_id>>,
                                       Some(CancelParams(immediately))))
        /\ apiResponse' = Some(response)
        /\ apiOutcome' = Some(request(response))
        /\ UNCHANGED <<kind, rec, syncVars, raceVars, itemVars, extVars>>

NextApi == fetch_order \/ fetch_subscription \/ cancel_subscription

SpecApi == InitApi /\ [][NextApi]_vars

\* The body of the last response parsed as a JSON object
ParsedBody == Val(Val(apiResponse).json)

HasFailureResult(body) ==
    "result" \in DOMAIN body /\ body.result # Some("success")

RaisedAPIError ==
    /\ Val(apiOutcome).raised = "APIError"
    /\ Val(apiOutcome).response = apiResponse

ReturnedBody ==
    /\ Val(apiOutcome).raised = ""
    /\ Val(apiOutcome).data = Val(apiResponse).json

Is2xx(status) == 200 <= status /\ status <= 299

\* C5, as claimed: a non-2xx status, or a 2xx status with a result field
\* that is not "success", raises APIError carrying the response; every
\* other response (any 2xx status, no result field or result == "success")
\* returns the parsed JSON body.  Read over bodies that parse as JSON.
C5_Classifies2xx ==
    (apiResponse # None /\ Val(apiResponse).json # None) =>
        IF \/ ~Is2xx(Val(apiResponse).status_code)
           \/ HasFailureResult(ParsedBody)
        THEN RaisedAPIError
        ELSE ReturnedBody

\* C5, amended: only status 200 counts as success.  Every status other
\* than 200 (201 and 204 included) raises APIError carrying the response,
\* as does a 200 whose JSON body has a result field that is not "success";
\* a 200 with no result field or result == "success" returns the parsed
\* body.  (A 200 whose body is not JSON leaves by response.json()'s own
\* ValueError.)
C5_Classifies200 ==
    apiResponse # None =>
        IF Val(apiResponse).status_code # 200
        THEN RaisedAPIError
        ELSE IF Val(apiResponse).json = None
             THEN Val(apiOutcome).raised = "ValueError"
             ELSE IF HasFailureResult(ParsedBody)
                  THEN RaisedAPIError
                  ELSE ReturnedBody

\* C5 witness: a 2xx response other than 200, with a body that reports
\* success, was answered with APIError.
C5_Witness ==
    /\ apiResponse # None
    /\ Is2xx(Val(apiResponse).status_code)
    /\ Val(apiResponse).status_code # 200
    /\ Val(apiResponse).json # None
    /\ ~HasFailureResult(ParsedBody)
    /\ RaisedAPIError

-----------------------------------------------------------------------------
(* OrderMixin.subscription_item                                            *)
(* An item is a JSON object; the value of its subscription key is kept as  *)
(* its JSON text, so that Python's truth test can be applied to it.        *)

Falsy == {"null", "false", "0", "\"\"", "{}", "[]"}

\* bool(v) of a JSON value, None for a missing key included
Truthy(v) == v # None /\ Val(v) \notin Falsy

Candidates(items) ==
    SelectSeq(items, LAMBDA it : Truthy(Get(it, "subscription")))

subscription_item_First(self) ==
    LET candidates == Candidates(Val(self.data).items) IN
    IF Len(candidates) = 0 THEN None ELSE Some(candidates[1])

subscription_item(self) ==
    LET candidates == Candidates(Val(self.data).items) IN
    IF Len(candidates) # 1 THEN None ELSE Some(candidates[1])

Products == {"plan", "addon"}

SubscriptionFlags == {"null", "false", "\"\"", "true", "\"sub-1\""}

Items ==
    {[product |-> Some(p)] : p \in Products}
    \cup {[product |-> Some(p), subscription |-> Some(f)] :
            p \in Products, f \in SubscriptionFlags}

ItemLists == UNION {[1..n -> Items] : n \in 0..MaxItems}

\* A synchronized order whose data carries the list `items`
OrderWithItems(items) ==
    LET d == OrderObject(Some(0), 1)
        data == [k \in DOMAIN d \cup {"items"} |->
                    IF k = "items" THEN items ELSE d[k]] IN
    OrderAssignFrom(1, FreshOrder, data, milliseconds_to_datetime(d.changed)).self

InitItems ==
    /\ kind = "order"
    /\ rec \in {OrderWithItems(items) : items \in ItemLists}
    /\ NoSync /\ NoRace /\ NoApi /\ NoItem /\ NoExt

SubscriptionItem ==
    /\ ~itemCalled
    /\ item' = subscription_item(rec)
    /\ itemCalled' = TRUE
    /\ UNCHANGED <<kind, rec, syncVars, raceVars, apiVars, extVars>>

NextItems == SubscriptionItem

SpecItems == InitItems /\ [][NextItems]_vars

\* The places of the order's items list whose subscription flag is truthy
Flagged ==
    LET items == Val(rec.data).items IN
    {i \in 1..Len(items) :
        /\ "subscription" \in DOMAIN items[i]
        /\ items[i].subscription \notin {Some(f) : f \in Falsy} \cup {None}}

\* C6: subscription_item returns an item if and only if exactly one entry
\* of the items list has a truthy subscription flag, and then that entry;
\* for zero and for two or more such entries it returns None.
C6_ExactlyOne ==
    itemCalled =>
        IF Cardinality(Flagged) = 1
        THEN \E i \in Flagged : item = Some(Val(rec.data).items[i])
        ELSE item = None

\* C6 witness: several entries are flagged and None was returned.
C6_Witness ==
    /\ itemCalled
    /\ Cardinality(Flagged) >= 2
    /\ item = None

-----------------------------------------------------------------------------
(* The extension object: __init__, init_app, secure                        *)

\* FastSpring(): every attribute None until init_app runs
NewExt ==
    [debug |-> None, storefront |-> None, username |-> None,
     password |-> None, openssl |-> None, access_key |-> None,
     private_key |-> None]

Mandatory ==
    <<"FASTSPRING_STOREFRONT", "FASTSPRING_USERNAME", "FASTSPRING_PASSWORD">>

\* Files FASTSPRING_PRIVATE_KEY can name: a PEM key, a path that does not
\* exist, a file that is no PEM key
KeyFiles == {"rsa.pem", "absent.pem", "garbage.pem"}

Done(self, how) == [self |-> self, outcome |-> how]

\* Lines 56-62, reached when not in debug mode
LoadPrivateKeyRequired(self, private_key) ==
    IF private_key = None
    THEN Done(self, "ConfigurationError")
    ELSE LET s == [self EXCEPT !.openssl = Some("backend")] IN
         CASE Val(private_key) = "absent.pem" -> Done(s, "FileNotFoundError")
           [] Val(private_key) = "garbage.pem" -> Done(s, "ValueError")
           [] OTHER -> Done([s EXCEPT !.private_key =
                                Some(<<"rsa-key", Val(private_key)>>)], "ok")

LoadPrivateKey(self, private_key) ==
    IF private_key = None
    THEN Done(self, "ok")
    ELSE LET s == [self EXCEPT !.openssl = Some("backend")] IN
         CASE Val(private_key) = "absent.pem" -> Done(s, "FileNotFoundError")
           [] Val(private_key) = "garbage.pem" -> Done(s, "ValueError")
           [] OTHER -> Done([s EXCEPT !.private_key =
                                Some(<<"rsa-key", Val(private_key)>>)], "ok")

\* Lines 49-62: the attributes are assigned in order, and app.config[...]
\* raises KeyError at the first mandatory option that is missing
init_app(self, app) ==
    LET config == app.config
        s1 == [self EXCEPT !.debug = Some(app.debug)] IN
    IF Mandatory[1] \notin DOMAIN config THEN Done(s1, "KeyError")
    ELSE LET s2 == [s1 EXCEPT !.storefront = config[Mandatory[1]]] IN
    IF Mandatory[2] \notin DOMAIN config THEN Done(s2, "KeyError")
    ELSE LET s3 == [s2 EXCEPT !.username = config[Mandatory[2]]] IN
    IF Mandatory[3] \notin DOMAIN config THEN Done(s3, "KeyError")
    ELSE LET s4 == [s3 EXCEPT !.password = config[Mandatory[3]]]
             s5 == [s4 EXCEPT
                      !.access_key = Get(config, "FASTSPRING_ACCESS_KEY")] IN
    IF app.debug THEN Done(s5, "ok")
    ELSE LoadPrivateKey(s5, Get(config, "FASTSPRING_PRIVATE_KEY"))

DebugOnOrNoKey(self) == self.debug = Some(TRUE) \/ self.private_key = None

\* if self.debug: None and False are both false
DebugOn(self) == self.debug = Some(TRUE)

\* urandom(16): any of the AES keys
AESKeys == {<<"key16", 1>>, <<"key16", 2>>}

EmptyString == <<"str", "">>

\* Payloads: two that json.dumps serializes, and a bytes object (as in
\* test_secure.py), which it does not
Payloads == {<<"dict", "reset">>, <<"dict", "contact">>, <<"bytes", "Hello">>}

Serializable(payload) == payload[1] # "bytes"

Failed(e) == [raised |-> e, value |-> None]
Gave(v) == [raised |-> "", value |-> Some(v)]

\* random_key, given what urandom returns
random_key(self, random) ==
    IF DebugOn(self) THEN EmptyString ELSE random

\* secure_payload.  Whether Cipher(..., backend=None) is refused depends on
\* the cryptography release (needsBackend).
secure_payload(self, key, payload, needsBackend) ==
    IF DebugOn(self) THEN Gave(payload)
    ELSE IF self.openssl = None /\ needsBackend THEN Failed("BackendError")
    ELSE IF ~Serializable(payload) THEN Failed("TypeError")
    ELSE Gave(<<"b64", <<"aes-ecb", key,
                         <<"pkcs7", <<"json.dumps", payload>>>>>>>>)

\* openssl_private_encrypt: backend._lib and key._evp_pkey are attribute
\* reads, AttributeError on None
openssl_private_encrypt(key, data, backend) ==
    IF backend = None \/ key = None THEN Failed("AttributeError")
    ELSE Gave(<<"rsa-private-pkcs1", Val(key), data>>)

secure_key(self, key) ==
    IF DebugOn(self) THEN Gave(key)
    ELSE LET r == openssl_private_encrypt(self.private_key, key, self.openssl) IN
         IF r.raised # "" THEN r ELSE Gave(<<"b64", Val(r.value)>>)

\* secure: the key, then the dict's payload entry, then its key entry
secure(self, payload, random, needsBackend) ==
    LET key == random_key(self, random)
        p == secure_payload(self, key, payload, needsBackend) IN
    IF p.raised # "" THEN p
    ELSE LET k == secure_key(self, key) IN
         IF k.raised # "" THEN k
         ELSE Gave([payload |-> Val(p.value), key |-> Val(k.value)])

\* app.config with every option set, and the ones an app may lack
FullConfig(key) ==
    [FASTSPRING_STOREFRONT |-> Some("store"),
     FASTSPRING_USERNAME |-> Some("user"),
     FASTSPRING_PASSWORD |-> Some("secret"),
     FASTSPRING_ACCESS_KEY |-> Some("access"),
     FASTSPRING_PRIVATE_KEY |-> key]

Config(missing, access, key) ==
    LET full == FullConfig(key)
        lacks == {missing}
                 \cup (IF access THEN {} ELSE {"FASTSPRING_ACCESS_KEY"})
                 \cup (IF key = None THEN {"FASTSPRING_PRIVATE_KEY"} ELSE {}) IN
    [k \in DOMAIN full \ lacks |-> full[k]]

\* The apps init_app is given: debug or not, at most one mandatory option
\* missing, with or without access key and private key path
Apps ==
    {[debug |-> d, config |-> Config(missing, access, key)] :
        d \in BOOLEAN,
        missing \in {""} \cup {Mandatory[i] : i \in DOMAIN Mandatory},
        access \in BOOLEAN,
        key \in {None} \cup {Some(f) : f \in KeyFiles}}

InitExt ==
    /\ kind = "order"
    /\ rec = FreshOrder
    /\ NoSync /\ NoRace /\ NoApi /\ NoItem
    /\ ext = Some(NewExt)
    /\ initCall = None
    /\ secureCall = None

InitApp ==
    \E app \in Apps :
        LET out == init_app(Val(ext), app) IN
        /\ ext' = Some(out.self)
        /\ initCall' = Some([app |-> app, outcome |-> out.outcome,
                             keyBefore |-> Val(ext).private_key])
        /\ secureCall' = None
        /\ UNCHANGED <<kind, rec, syncVars, raceVars, apiVars, itemVars>>

Secure ==
    \E payload \in Payloads, random \in AESKeys, needsBackend \in BOOLEAN :
        /\ secureCall' =
             Some([op |-> "secure", payload |-> payload,
                   key |-> random_key(Val(ext), random),
                   out |-> secure(Val(ext), payload, random, needsBackend)])
        /\ UNCHANGED <<kind, rec, syncVars, raceVars, apiVars, itemVars,
                       ext, initCall>>

\* secure_key called on its own, as test_secure.py does
SecureKey ==
    \E key \in AESKeys :
        /\ secureCall' =
             Some([op |-> "secure_key", payload |-> None, key |-> key,
                   out |-> secure_key(Val(ext), key)])
        /\ UNCHANGED <<kind, rec, syncVars, raceVars, apiVars, itemVars,
                       ext, initCall>>

NextExt == InitApp \/ Secure \/ SecureKey

SpecExt == InitExt /\ [][NextExt]_vars

\* The last init_app call was given a non-debug app with every mandatory
\* option and no FASTSPRING_PRIVATE_KEY
InitWithoutKey ==
    /\ initCall # None
    /\ ~Val(initCall).app.debug
    /\ \A i \in DOMAIN Mandatory : Mandatory[i] \in DOMAIN Val(initCall).app.config
    /\ "FASTSPRING_PRIVATE_KEY" \notin DOMAIN Val(initCall).app.config

\* The last secure / secure_key call failed for want of the key material
FailedForKey ==
    /\ secureCall # None
    /\ Val(ext).private_key = None
    /\ Val(secureCall).out.raised \in {"AttributeError", "BackendError"}

\* C7, as claimed: a missing private key is reported at setup time, so no
\* state is reachable in which init_app has completed successfully (non-
\* debug, FASTSPRING_PRIVATE_KEY not configured) and a later secure /
\* secure_key call fails because private_key is unset.
C7_FailsAtSetup ==
    ~(InitWithoutKey /\ Val(initCall).outcome = "ok" /\ FailedForKey)

\* C7, amended: a missing private key is not reported at setup.  In non-
\* debug mode with the mandatory options present and no
\* FASTSPRING_PRIVATE_KEY, init_app completes successfully and does not
\* touch private_key; the failure comes at call time: with debug off and
\* private_key unset every secure / secure_key call raises.  What fails at
\* setup is a missing mandatory option (KeyError).
C7_FailsAtCall ==
    /\ InitWithoutKey =>
         /\ Val(initCall).outcome = "ok"
         /\ Val(ext).private_key = Val(initCall).keyBefore
    /\ (/\ initCall # None
        /\ \E i \in DOMAIN Mandatory :
              Mandatory[i] \notin DOMAIN Val(initCall).app.config)
         => Val(initCall).outcome = "KeyError"
    /\ (/\ secureCall # None
        /\ Val(ext).debug # Some(TRUE)
        /\ Val(ext).private_key = None)
         => Val(secureCall).out.raised # ""

\* C7 witness: init_app of a non-debug app without the key option has
\* returned normally, and the secure call after it has raised.
C7_Witness ==
    /\ InitWithoutKey
    /\ Val(initCall).outcome = "ok"
    /\ Val(ext).debug = Some(FALSE)
    /\ FailedForKey
    /\ Val(secureCall).op = "secure"

\* A value in the encoded form b64encode(...).decode() returns
Encoded(v) == v[1] = "b64"

\* C8: plaintext passthrough is controlled by the debug flag alone and is
\* never a fallback for a missing key: secure() returns the payload as
\* given, with an unwrapped (empty) key, exactly when the debug flag is on;
\* with debug off it returns ciphertext and a wrapped key or raises, and
\* with no private key it raises.  The same for secure_key on its own.
C8_PlaintextOnlyInDebug ==
    secureCall # None =>
        LET call == Val(secureCall)
            out == call.out
            debug == (Val(ext).debug = Some(TRUE)) IN
        IF call.op = "secure"
        THEN /\ debug =>
                  out = Gave([payload |-> call.payload, key |-> EmptyString])
             /\ ~debug =>
                  \/ out.raised # ""
                  \/ /\ Encoded(Val(out.value).payload)
                     /\ Encoded(Val(out.value).key)
             /\ (~debug /\ Val(ext).private_key = None) => out.raised # ""
        ELSE /\ debug => out = Gave(call.key)
             /\ ~debug => (out.raised # "" \/ Encoded(Val(out.value)))

\* C8 witness: debug is off, no private key is loaded, and secure() of a
\* serializable payload has raised instead of returning.
C8_Witness ==
    /\ secureCall # None
    /\ Val(secureCall).op = "secure"
    /\ Serializable(Val(secureCall).payload)
    /\ Val(ext).debug = Some(FALSE)
    /\ Val(ext).private_key = None
    /\ Val(secureCall).out.raised = "AttributeError"

====
